---- MODULE Spec2Model ----
(***************************************************************************)
(* MosaicConverter (main.py): palette cache reconciliation, nearest-colour *)
(* matching, selective tile loading and mosaic assembly.                   *)
(*                                                                         *)
(* Entries of the mosaics/ directory are slots 1..MaxFiles, in scan order; *)
(* an entry of kind "gitkeep" is a regular file named ".gitkeep".          *)
(* A file's bytes are an id of Contents; the decoded picture of each id is *)
(* TileImage.  Floating point averages are fixed-point numbers with        *)
(* denominator TilePixels (the channel sum over the 48x48 pixels), which   *)
(* is exact for them.  A source picture is what get_image sees after the   *)
(* optional resize.                                                        *)
(***************************************************************************)
EXTENDS FiniteSets, Integers, Sequences, TLC

\* ---------------------------------------------------------------- bounds
MaxFiles == 2
MaxW == 2
MaxH == 2
MaxRuns == 2

\* ------------------------------------------------------ program constants
TileSize == 48
TilePixels == TileSize * TileSize

VARIABLES
    dir,            \* mosaics/: slot -> directory entry
    cacheFile,      \* ./cache: [exists, lines]
    palette,        \* value returned by the last get_mosaic_palette
    decoded,        \* slots get_image was called on during the last run
    averaged,       \* slots numpy.average was computed for during the last run
    scanned,        \* slots the last run's loop iterated over, in order
    prevCache,      \* ./cache as it was when the last run started
    changed,        \* directory changes made since the last run ended
    delta,          \* directory changes made between the last two runs
    runs,           \* number of get_mosaic_palette runs so far
    pc,             \* position of __main__
    source,         \* the image at args.image_path
    pixel_values,   \* get_image(args.image_path, True, ...)
    image_mask,     \* get_image_mask(...)
    loaded_images,  \* load_used_images(...): [none, images]
    opened,         \* slots load_used_images called Image.open on
    new_image,      \* generate_image(...): [size, blocks]
    status,         \* exit status of the process, -1 while it runs
    called          \* functions of the pipeline entered so far

cacheVars == <<dir, cacheFile, palette, decoded, averaged, scanned, prevCache,
               changed, delta, runs>>
mainVars == <<pc, source, pixel_values, image_mask, loaded_images, opened,
              new_image, status, called>>
vars == <<dir, cacheFile, palette, decoded, averaged, scanned, prevCache,
          changed, delta, runs, pc, source, pixel_values, image_mask,
          loaded_images, opened, new_image, status, called>>

\* ------------------------------------------------------------ input data
Slots == 1..MaxFiles

Contents == {1, 2, 3, 4}

\* What Image.open yields for a file with the given bytes.  sums are the
\* per-channel sums over all pixels: 2 is solid black, 3 averages 2.5 per
\* channel, 4 averages 4, 1 is a picture of the wrong size.
TileImage(b) ==
    CASE b = 1 -> [openable |-> TRUE, width |-> 32, height |-> 48, mode |-> "RGB",
                   sums |-> <<0, 0, 0>>]
      [] b = 2 -> [openable |-> TRUE, width |-> 48, height |-> 48, mode |-> "RGB",
                   sums |-> <<0, 0, 0>>]
      [] b = 3 -> [openable |-> TRUE, width |-> 48, height |-> 48, mode |-> "RGB",
                   sums |-> <<5760, 5760, 5760>>]
      [] OTHER -> [openable |-> TRUE, width |-> 48, height |-> 48, mode |-> "RGB",
                   sums |-> <<9216, 9216, 9216>>]

Absent == [kind |-> "absent", bytes |-> 0]

\* A file that cannot be read, a file named .gitkeep that holds the bytes of
\* a black tile, and ordinary files of every content.
DirEntries ==
    {Absent, [kind |-> "unreadable", bytes |-> 0], [kind |-> "gitkeep", bytes |-> 2]}
        \cup {[kind |-> "file", bytes |-> b] : b \in Contents}

Dark == <<0, 0, 0>>
Light == <<3, 3, 3>>

\* Source pictures: RGB pictures of every size up to MaxW x MaxH that are
\* dark everywhere or light at exactly one pixel, data being the row-major
\* sequence getdata() returns, and one greyscale picture.
Sources ==
    UNION {UNION {{[openable |-> TRUE, width |-> w, height |-> h, mode |-> "RGB",
                    data |-> [i \in 1..(w * h) |-> IF i = k THEN Light ELSE Dark]]
                   : k \in 0..(w * h)}
                  : h \in 1..MaxH} : w \in 1..MaxW}
      \cup {[openable |-> TRUE, width |-> 1, height |-> 1, mode |-> "L",
             data |-> <<<<0, 0, 0>>>>]}

\* ------------------------------------------------------------- get_image
\* TRUE iff get_image returns an array rather than None.
get_image(image, ignore_size) ==
    /\ image.openable
    /\ (ignore_size \/ (image.width = TileSize /\ image.height = TileSize))
    /\ image.mode \in {"RGB"}

\* numpy.array(image.getdata()).reshape((width, height, 3)): element [x, y]
\* of the result is element x * height + y of the flat pixel sequence.
Reshape(image) ==
    [c \in (0..(image.width - 1)) \X (0..(image.height - 1)) |->
        image.data[c[1] * image.height + c[2] + 1]]

\* ------------------------------------------------------- get_image_hash
\* The hex digest is one token, a different one for different bytes.
get_image_hash(b) == <<b>>

\* -------------------------------------------------- parse_mosaic_palette
\* numpy.fromstring yields the three floats; storing them into the
\* dtype=int array truncates each towards zero.
ParseColor(line) ==
    <<line[1] \div TilePixels, line[2] \div TilePixels, line[3] \div TilePixels>>

parse_mosaic_palette(mosaic_palette) ==
    LET total_elements == Len(mosaic_palette) \div 2
    IN  <<[i \in 1..total_elements |-> mosaic_palette[2 * i - 1]],
          [i \in 1..total_elements |-> ParseColor(mosaic_palette[2 * i])]>>

\* --------------------------------------------------- get_mosaic_palette
\* A membership test that never finds the fingerprint.
KnownNever(image_hash, saved_values) == FALSE

\* image_hash in saved_values
Known(image_hash, saved_values) ==
    \E i \in 1..Len(saved_values) : saved_values[i] = image_hash

\* A lookup that forgets the index and returns the first stored colour.
SavedColorFirst(image_hash, saved_values) == saved_values[2]

\* saved_values[saved_values.index(image_hash) + 1]
SavedColor(image_hash, saved_values) ==
    LET idx == CHOOSE i \in 1..Len(saved_values) :
                  /\ saved_values[i] = image_hash
                  /\ \A j \in 1..(i - 1) : saved_values[j] # image_hash
    IN  saved_values[idx + 1]

\* numpy.average over the pixels, then the f-string of the three floats.
AverageLine(image) == image.sums

\* entry.is_file()
IsFile(entry) == entry.kind \in {"file", "gitkeep", "unreadable"}

\* entry.name == ".gitkeep"
IsPlaceholder(entry) == entry.kind = "gitkeep"

\* One iteration of the loop over scandir("mosaics").
ProcessEntry(entry, saved_values, delete_flag) ==
    LET none == [lines |-> <<>>, decoded |-> FALSE, averaged |-> FALSE,
                 removed |-> FALSE, failed |-> FALSE]
    IN  IF ~IsFile(entry) \/ IsPlaceholder(entry)
        THEN none
        ELSE IF entry.kind = "unreadable"
        THEN [none EXCEPT !.failed = TRUE]
        ELSE LET image_hash == get_image_hash(entry.bytes)
             IN  IF ~Known(image_hash, saved_values)
                 THEN IF ~get_image(TileImage(entry.bytes), FALSE)
                      THEN [none EXCEPT !.decoded = TRUE, !.failed = TRUE,
                                        !.removed = delete_flag]
                      ELSE [none EXCEPT !.decoded = TRUE, !.averaged = TRUE,
                                        !.lines = <<image_hash,
                                                    AverageLine(TileImage(entry.bytes))>>]
                 ELSE [none EXCEPT !.lines = <<image_hash,
                                               SavedColor(image_hash, saved_values)>>]

\* A loop that a failing tile terminates.
NextEntryAbort(k, failed) == IF failed THEN MaxFiles + 1 ELSE k + 1

\* The slot the loop goes to after slot k: the continue statement and the
\* except clause both sit inside the for loop.
NextEntry(k, failed) == k + 1

RECURSIVE ScanMosaics(_, _, _, _, _)
ScanMosaics(k, d, saved_values, delete_flag, acc) ==
    IF k > MaxFiles THEN acc
    ELSE IF d[k].kind = "absent"
    THEN ScanMosaics(k + 1, d, saved_values, delete_flag, acc)
    ELSE LET r == ProcessEntry(d[k], saved_values, delete_flag)
             step == [cache    |-> acc.cache \o r.lines,
                      decoded  |-> acc.decoded \cup (IF r.decoded THEN {k} ELSE {}),
                      averaged |-> acc.averaged \cup (IF r.averaged THEN {k} ELSE {}),
                      removed  |-> acc.removed \cup (IF r.removed THEN {k} ELSE {}),
                      scanned  |-> Append(acc.scanned, k)]
         IN  ScanMosaics(NextEntry(k, r.failed), d, saved_values, delete_flag, step)

get_mosaic_palette(d, file, delete_flag) ==
    LET saved_values == IF file.exists THEN file.lines ELSE <<>>
        r == ScanMosaics(1, d, saved_values, delete_flag,
                         [cache |-> <<>>, decoded |-> {}, averaged |-> {},
                          removed |-> {}, scanned |-> <<>>])
    IN  [dir      |-> [s \in Slots |-> IF s \in r.removed THEN Absent ELSE d[s]],
         file     |-> IF saved_values # r.cache
                      THEN [exists |-> TRUE, lines |-> r.cache]
                      ELSE file,
         palette  |-> parse_mosaic_palette(r.cache),
         decoded  |-> r.decoded,
         averaged |-> r.averaged,
         scanned  |-> r.scanned]

\* ------------------------------------------------------- get_image_mask
Abs(n) == IF n < 0 THEN -n ELSE n

\* numpy.average(numpy.abs(color - pixel)) times 3: the division by 3 keeps
\* both the order and the ties of these integer sums.
Distance(color, pixel) ==
    Abs(color[1] - pixel[1]) + Abs(color[2] - pixel[2]) + Abs(color[3] - pixel[3])

\* numpy argmin of a non-empty sequence: the first index of the minimum.
RECURSIVE ArgMinFrom(_, _, _)
ArgMinFrom(seq, i, best) ==
    IF i > Len(seq) THEN best
    ELSE ArgMinFrom(seq, i + 1, IF seq[i] < seq[best] THEN i ELSE best)

\* An argmin that returns the last index of the minimum.
RECURSIVE ArgMinLastFrom(_, _, _)
ArgMinLastFrom(seq, i, best) ==
    IF i > Len(seq) THEN best
    ELSE ArgMinLastFrom(seq, i + 1, IF seq[i] <= seq[best] THEN i ELSE best)

argminLast(seq) == ArgMinLastFrom(seq, 2, 1)

argmin(seq) == ArgMinFrom(seq, 2, 1)

MatchPixel(pixel, mosaic_palette) ==
    LET dists == [i \in 1..Len(mosaic_palette[2]) |->
                     Distance(mosaic_palette[2][i], pixel)]
    IN  mosaic_palette[1][argmin(dists)]

get_image_mask(pixels, mosaic_palette) ==
    [c \in DOMAIN pixels |-> MatchPixel(pixels[c], mosaic_palette)]

\* ---------------------------------------------------- load_used_images
MaskValues(mask) == {mask[c] : c \in DOMAIN mask}

\* A loader that takes every file of the directory.
UsedByMaskAlways(image_hash, mask) == TRUE

\* image_hash in image_mask
UsedByMask(image_hash, mask) == image_hash \in MaskValues(mask)

\* The slots whose files are hashed and found in the mask.
UsedSlots(d, mask) ==
    {s \in Slots : /\ d[s].kind \in {"file", "gitkeep"}
                   /\ UsedByMask(get_image_hash(d[s].bytes), mask)}

\* The slots at which get_image_hash or Image.open raises.
FailingSlots(d, mask) ==
    {s \in Slots : \/ d[s].kind = "unreadable"
                   \/ s \in UsedSlots(d, mask) /\ ~TileImage(d[s].bytes).openable}

load_used_images(d, mask) ==
    LET before == {s \in UsedSlots(d, mask) : \A f \in FailingSlots(d, mask) : s < f}
    IN  IF FailingSlots(d, mask) # {}
        THEN [none |-> TRUE, images |-> <<>>, opened |-> before]
        ELSE [none   |-> FALSE,
              images |-> [h \in {get_image_hash(d[s].bytes) : s \in UsedSlots(d, mask)}
                             |-> h[1]],
              opened |-> UsedSlots(d, mask)]

\* ------------------------------------------------------- generate_image
\* The picture pasted at pixel offset (x * 48, y * 48) is blocks[<<x, y>>].
generate_image(mask, loaded_data, shape) ==
    [size   |-> <<TileSize * shape[1], TileSize * shape[2]>>,
     blocks |-> [c \in DOMAIN mask |-> loaded_data[mask[c]]]]

\* ------------------------------------------------------------- __main__
\* A main that never notices the empty palette.
PaletteEmptyNever(mosaic_palette) == FALSE

\* len(mosaic_palette[0]) == 0
PaletteEmpty(mosaic_palette) == Len(mosaic_palette[1]) = 0

NoFile == [exists |-> FALSE, lines |-> <<>>]
NoLoad == [none |-> FALSE, images |-> <<>>]
NoImage == [size |-> <<0, 0>>, blocks |-> <<>>]

InitCommon ==
    /\ dir \in [Slots -> DirEntries]
    /\ cacheFile = NoFile
    /\ palette = <<<<>>, <<>>>>
    /\ decoded = {}
    /\ averaged = {}
    /\ scanned = <<>>
    /\ prevCache = NoFile
    /\ changed = {}
    /\ delta = {}
    /\ runs = 0
    /\ pixel_values = <<>>
    /\ image_mask = <<>>
    /\ loaded_images = NoLoad
    /\ opened = {}
    /\ new_image = NoImage
    /\ status = -1
    /\ called = {}

\* One invocation of main.py on some source picture and some mosaics/.
Init ==
    /\ InitCommon
    /\ pc = "start"
    /\ source \in Sources

\* The effect of one call of get_mosaic_palette on the directory and cache.
RunPalette(delete_flag) ==
    LET r == get_mosaic_palette(dir, cacheFile, delete_flag)
    IN  /\ dir' = r.dir
        /\ cacheFile' = r.file
        /\ palette' = r.palette
        /\ decoded' = r.decoded
        /\ averaged' = r.averaged
        /\ scanned' = r.scanned
        /\ prevCache' = cacheFile
        /\ delta' = changed
        /\ changed' = {}
        /\ runs' = runs + 1

\* pixel_values = get_image(args.image_path, True, ...); quit(1) on None
MainGetSource ==
    /\ pc = "start"
    /\ IF get_image(source, TRUE)
       THEN /\ pixel_values' = Reshape(source)
            /\ pc' = "palette"
            /\ status' = status
       ELSE /\ pixel_values' = pixel_values
            /\ pc' = "exited"
            /\ status' = 1
    /\ UNCHANGED <<cacheVars, source, image_mask, loaded_images, opened, new_image,
                   called>>

\* mosaic_palette = get_mosaic_palette(args.delete); quit(1) when empty
MainGetPalette(delete_flag) ==
    /\ pc = "palette"
    /\ RunPalette(delete_flag)
    /\ IF PaletteEmpty(palette')
       THEN pc' = "exited" /\ status' = 1
       ELSE pc' = "mask" /\ status' = status
    /\ UNCHANGED <<source, pixel_values, image_mask, loaded_images, opened,
                   new_image, called>>

\* image_mask = get_image_mask(pixel_values, mosaic_palette); argmin of an
\* empty sequence raises and the process dies with status 1.
MainGetMask ==
    /\ pc = "mask"
    /\ called' = called \cup {"get_image_mask"}
    /\ IF Len(palette[1]) = 0
       THEN /\ image_mask' = image_mask
            /\ pc' = "exited"
            /\ status' = 1
       ELSE /\ image_mask' = get_image_mask(pixel_values, palette)
            /\ pc' = "load"
            /\ status' = status
    /\ UNCHANGED <<cacheVars, source, pixel_values, loaded_images, opened, new_image>>

\* loaded_images = load_used_images(image_mask); quit(1) on None
MainLoadUsed ==
    /\ pc = "load"
    /\ called' = called \cup {"load_used_images"}
    /\ LET r == load_used_images(dir, image_mask)
       IN  /\ loaded_images' = [none |-> r.none, images |-> r.images]
           /\ opened' = r.opened
           /\ IF r.none
              THEN pc' = "exited" /\ status' = 1
              ELSE pc' = "generate" /\ status' = status
    /\ UNCHANGED <<cacheVars, source, pixel_values, image_mask, new_image>>

\* new_image = generate_image(image_mask, loaded_images); show or save;
\* quit(0).  paste(None, ...) raises when a tile of the mask is not loaded.
MainGenerate ==
    /\ pc = "generate"
    /\ called' = called \cup {"generate_image"}
    /\ IF MaskValues(image_mask) \subseteq DOMAIN loaded_images.images
       THEN /\ new_image' = generate_image(image_mask, loaded_images.images,
                                          <<source.width, source.height>>)
            /\ status' = 0
       ELSE /\ new_image' = new_image
            /\ status' = 1
    /\ pc' = "exited"
    /\ UNCHANGED <<cacheVars, source, pixel_values, image_mask, loaded_images, opened>>

\* Somebody else adds, removes or rewrites one entry of mosaics/: between
\* two runs of the palette cache, or between the palette build and the load.
TileDirChange(slot, entry) ==
    /\ \/ pc = "idle" /\ runs >= 1 /\ runs < MaxRuns
       \/ pc = "load"
    /\ changed = {}
    /\ entry # dir[slot]
    /\ dir' = [dir EXCEPT ![slot] = entry]
    /\ changed' = changed \cup {[slot |-> slot, from |-> dir[slot], to |-> entry]}
    /\ UNCHANGED <<cacheFile, palette, decoded, averaged, scanned, prevCache, delta,
                   runs, mainVars>>

Next ==
    \/ MainGetSource
    \/ \E delete_flag \in BOOLEAN : MainGetPalette(delete_flag)
    \/ MainGetMask
    \/ MainLoadUsed
    \/ MainGenerate
    \/ \E slot \in Slots, entry \in DirEntries : TileDirChange(slot, entry)

Spec == Init /\ [][Next]_vars

\* Repeated runs of get_mosaic_palette on a directory that changes between
\* the runs.
InitCache ==
    /\ InitCommon
    /\ pc = "idle"
    /\ source = [openable |-> TRUE, width |-> 1, height |-> 1, mode |-> "RGB",
                 data |-> <<<<0, 0, 0>>>>]

PaletteRun(delete_flag) ==
    /\ pc = "idle"
    /\ runs < MaxRuns
    /\ RunPalette(delete_flag)
    /\ UNCHANGED mainVars

NextCache ==
    \/ \E delete_flag \in BOOLEAN : PaletteRun(delete_flag)
    \/ \E slot \in Slots, entry \in DirEntries : TileDirChange(slot, entry)

SpecCache == InitCache /\ [][NextCache]_vars

\* ================================================================ claims
Range(seq) == {seq[i] : i \in 1..Len(seq)}

NoDuplicates(seq) == \A i, j \in 1..Len(seq) : i # j => seq[i] # seq[j]

\* The fingerprint lines of a cache file, in order.
CacheFingerprints(file) ==
    [i \in 1..(Len(file.lines) \div 2) |-> file.lines[2 * i - 1]]

\* The (fingerprint, colour line) pairs a cache file holds for fingerprint h.
EntriesFor(file, h) ==
    {<<file.lines[2 * i - 1], file.lines[2 * i]>> :
        i \in {j \in 1..(Len(file.lines) \div 2) : file.lines[2 * j - 1] = h}}

HasEntry(file, h) == EntriesFor(file, h) # {}

\* A readable regular file that decodes to a 48x48 RGB picture.
ValidTile(entry) ==
    /\ entry.kind = "file"
    /\ TileImage(entry.bytes).openable
    /\ TileImage(entry.bytes).width = 48
    /\ TileImage(entry.bytes).height = 48
    /\ TileImage(entry.bytes).mode = "RGB"

\* C1: after get_mosaic_palette has reconciled the directory, neither the
\* returned palette nor the persisted cache holds two entries with the same
\* fingerprint, even when two files have identical content.
C1_UniqueFingerprints ==
    runs >= 1 =>
        /\ NoDuplicates(palette[1])
        /\ NoDuplicates(CacheFingerprints(cacheFile))

\* The last run was a second run on a directory nobody touched since the
\* run before it, and nobody touched the directory after it either.
RerunUnchanged == runs >= 2 /\ delta = {} /\ changed = {}

\* C2 (as stated): a second run on an unchanged directory calls get_image on
\* no tile and leaves the cache file byte-identical.
C2_RerunDecodesNothing ==
    RerunUnchanged => (decoded = {} /\ cacheFile = prevCache)

\* C2 (amended): a second run on an unchanged directory leaves the cache
\* file byte-identical, averages no tile, and calls get_image only on tiles
\* that have no cache entry (their validation failed in the first run).
C2_RerunReusesCache ==
    RerunUnchanged =>
        /\ cacheFile = prevCache
        /\ averaged = {}
        /\ \A s \in decoded :
              \/ dir[s] = Absent
              \/ /\ dir[s].kind = "file"
                 /\ ~ValidTile(dir[s])
                 /\ ~HasEntry(prevCache, get_image_hash(dir[s].bytes))

\* A rerun that reused a cached tile and decoded an invalid one again.
C2_Witness ==
    /\ RerunUnchanged
    /\ decoded # {}
    /\ Len(cacheFile.lines) > 0
    /\ \E s \in Slots : ValidTile(dir[s]) /\ s \notin decoded

\* Between the last two runs the bytes of exactly one tile file were
\* rewritten and nothing else happened to the directory.
OneTileRewritten ==
    /\ runs >= 2
    /\ changed = {}
    /\ Cardinality(delta) = 1
    /\ \A c \in delta : /\ c.from.kind = "file"
                      /\ c.to.kind = "file"
                      /\ c.from.bytes # c.to.bytes

\* Every tile other than slot s has the same cache entry after the last run
\* as before it.
OthersKept(s) ==
    \A t \in Slots \ {s} :
        dir[t].kind = "file" =>
            EntriesFor(cacheFile, get_image_hash(dir[t].bytes))
                = EntriesFor(prevCache, get_image_hash(dir[t].bytes))

\* C3 (as stated): after one tile's bytes changed, the second run decodes and
\* averages exactly that tile and every other tile keeps its cache entry.
C3_ExactlyChangedTileRecomputed ==
    OneTileRewritten =>
        \A c \in delta : /\ decoded = {c.slot}
                         /\ averaged = {c.slot}
                         /\ OthersKept(c.slot)

\* C3 (amended): after one tile's bytes changed, the second run calls
\* get_image on that tile unless its new fingerprint already has a cache
\* entry, averages it only if it then passes validation, averages no other
\* tile, calls get_image on another tile only if that tile has no cache
\* entry, and every other tile keeps its cache entry.
C3_ChangedTileRecomputed ==
    OneTileRewritten =>
        \A c \in delta :
            /\ c.slot \in decoded <=> ~HasEntry(prevCache, get_image_hash(c.to.bytes))
            /\ c.slot \in averaged <=> (c.slot \in decoded /\ ValidTile(c.to))
            /\ averaged \subseteq {c.slot}
            /\ \A t \in decoded \ {c.slot} :
                  \/ dir[t] = Absent
                  \/ /\ dir[t].kind = "file"
                     /\ ~ValidTile(dir[t])
                     /\ ~HasEntry(prevCache, get_image_hash(dir[t].bytes))
            /\ OthersKept(c.slot)

\* The first tile was rewritten and recomputed, the second kept its entry.
C3_Witness ==
    /\ OneTileRewritten
    /\ \E c \in delta :
          /\ averaged = {c.slot}
          /\ \E t \in Slots \ {c.slot} :
                /\ c.slot < t
                /\ ValidTile(dir[t])
                /\ HasEntry(cacheFile, get_image_hash(dir[t].bytes))
                /\ dir[t].bytes # c.to.bytes

\* The real-valued distance between a tile's AverageColor and a pixel, times
\* 3 * TilePixels.
RealDistance(fingerprint, pixel) ==
    LET sums == TileImage(fingerprint[1]).sums
    IN  Abs(sums[1] - TilePixels * pixel[1]) + Abs(sums[2] - TilePixels * pixel[2])
            + Abs(sums[3] - TilePixels * pixel[3])

MaskBuilt == DOMAIN image_mask # {}

\* C4: the fingerprint in every mask cell belongs to a palette entry whose
\* real-valued AverageColor is at least as close to the pixel, in mean
\* absolute per-channel difference, as that of every other palette entry.
C4_NearestByAverageColor ==
    MaskBuilt =>
        \A c \in DOMAIN image_mask : \A i \in 1..Len(palette[1]) :
            RealDistance(image_mask[c], pixel_values[c])
                <= RealDistance(palette[1][i], pixel_values[c])

\* Palette entry i is at minimum distance from the pixel.
IsNearest(i, pixel) ==
    \A j \in 1..Len(palette[2]) :
        Distance(palette[2][i], pixel) <= Distance(palette[2][j], pixel)

\* Palette entry i is the first one at minimum distance from the pixel.
IsFirstNearest(i, pixel) ==
    /\ IsNearest(i, pixel)
    /\ \A j \in 1..(i - 1) :
          Distance(palette[2][j], pixel) > Distance(palette[2][i], pixel)

\* C5: every mask cell holds the fingerprint of the first palette entry, in
\* palette order, among those at minimum distance from the pixel.
C5_FirstOfTheNearest ==
    MaskBuilt =>
        \A c \in DOMAIN image_mask :
            \E i \in 1..Len(palette[2]) :
                /\ IsFirstNearest(i, pixel_values[c])
                /\ image_mask[c] = palette[1][i]

\* A pixel with two nearest entries of different fingerprints.
C5_Witness ==
    /\ MaskBuilt
    /\ \E c \in DOMAIN image_mask : \E i, j \in 1..Len(palette[2]) :
          /\ i < j
          /\ IsFirstNearest(i, pixel_values[c])
          /\ IsNearest(j, pixel_values[c])
          /\ palette[1][i] # palette[1][j]
          /\ image_mask[c] = palette[1][i]

\* Some fingerprint of the mask is the hash of no readable file of mosaics/.
Unresolvable ==
    \E h \in MaskValues(image_mask) :
        \A s \in Slots : ~(/\ dir[s].kind \in {"file", "gitkeep"}
                            /\ get_image_hash(dir[s].bytes) = h)

\* C6: when a fingerprint of the mask cannot be resolved to a readable file,
\* load_used_images returns None and the process exits with non-zero status
\* without calling generate_image.
C6_MissingTileAborts ==
    ("load_used_images" \in called /\ Unresolvable) =>
        /\ loaded_images.none
        /\ pc = "exited"
        /\ status = 1
        /\ "generate_image" \notin called

\* C7: a failing tile does not stop the reconciliation: the loop visits
\* every entry of the directory, and every tile that is valid or already
\* cached has an entry in the returned palette.
C7_FailuresAreSkipped ==
    (runs >= 1 /\ changed = {}) =>
        /\ \A s \in Slots : dir[s] # Absent => s \in Range(scanned)
        /\ \A t \in Slots :
              (dir[t].kind = "file"
                 /\ (ValidTile(dir[t])
                       \/ HasEntry(prevCache, get_image_hash(dir[t].bytes))))
                  => get_image_hash(dir[t].bytes) \in Range(palette[1])

\* A failing tile is followed by a valid one that got its entry.
C7_Witness ==
    /\ runs >= 1
    /\ changed = {}
    /\ \E f, t \in Slots :
          /\ f < t
          /\ \/ dir[f].kind = "unreadable"
             \/ f \in decoded \ averaged
          /\ ValidTile(dir[t])
          /\ get_image_hash(dir[t].bytes) \in Range(palette[1])

\* C8: when the reconciled palette has no entry, the process exits with
\* status 1 and neither get_image_mask nor load_used_images nor
\* generate_image is called.
C8_EmptyPaletteExits ==
    (runs >= 1 /\ Len(palette[1]) = 0) =>
        /\ pc = "exited"
        /\ status = 1
        /\ called = {}

\* The directory held only an invalid tile and main exited.
C8_Witness ==
    /\ runs >= 1
    /\ Len(palette[1]) = 0
    /\ pc = "exited"
    /\ status = 1
    /\ \E s \in Slots : s \in decoded

LoadSucceeded ==
    /\ "load_used_images" \in called
    /\ ~loaded_images.none
    /\ changed = {}

\* C9: when load_used_images succeeds on an unchanged directory, the keys of
\* its result are exactly the fingerprints of the mask and every file it
\* opened has a fingerprint of the mask.
C9_LoadsExactlyTheMask ==
    LoadSucceeded =>
        /\ DOMAIN loaded_images.images = MaskValues(image_mask)
        /\ \A s \in opened :
              /\ dir[s].kind \in {"file", "gitkeep"}
              /\ get_image_hash(dir[s].bytes) \in MaskValues(image_mask)

\* The palette has a tile the mask does not use, and it was not loaded.
C9_Witness ==
    /\ LoadSucceeded
    /\ \E h \in Range(palette[1]) : h \notin MaskValues(image_mask)
    /\ \E s \in Slots : ValidTile(dir[s]) /\ s \notin opened
    /\ opened # {}

\* C10: the output has size (48 * W, 48 * H) and the block at offset
\* (48 * x, 48 * y) is the tile matched to the source pixel at column x and
\* row y, that is element y * W + x of the row-major pixel data.
C10_BlocksFollowSourcePixels ==
    (pc = "exited" /\ status = 0) =>
        /\ new_image.size = <<48 * source.width, 48 * source.height>>
        /\ \A x \in 0..(source.width - 1) : \A y \in 0..(source.height - 1) :
              new_image.blocks[<<x, y>>]
                  = MatchPixel(source.data[y * source.width + x + 1], palette)[1]

====
